---- MODULE Spec2Model ----
(***************************************************************************)
(* A model of tspconvertcompare: the memoized document store, the          *)
(* reference resolver, the merger, the normalizer, compare and the filter  *)
(* loop of main.                                                           *)
(*                                                                         *)
(* Python objects are mutable and shared by reference, so the model keeps  *)
(* a heap: a sequence of objects, an object's id being its index.  A value *)
(* is a scalar or a pointer into the heap.  Python strings (paths, raw     *)
(* references, diff paths, string leaves) are sequences of tokens, a token *)
(* being a run of characters that the program never splits; "/", "#" and   *)
(* " " are tokens of their own.                                            *)
(***************************************************************************)
EXTENDS Integers, Sequences, FiniteSets, TLC

VARIABLES heap, dcache, fcache, reads, log, call, calls,
          diffs, no_filter, printed, pc

vars == <<heap, dcache, fcache, reads, log, call, calls,
          diffs, no_filter, printed, pc>>

(***************************************************************************)
(* Bounds of the model.                                                    *)
(***************************************************************************)
MaxCalls == 2
MaxFuel == 6
MaxDiffs == 2
MaxCachePaths == 130

(***************************************************************************)
(* Values.                                                                 *)
(***************************************************************************)
Str(s) == [k |-> "str", s |-> s]
Num(n) == [k |-> "num", n |-> n]
Null == [k |-> "null"]
Obj(id) == [k |-> "obj", id |-> id]
NoVal == [k |-> "none"]

\* A pure tree: the content of a file, a snapshot of the heap, a canonical tree.
TDict(m) == [k |-> "dict", m |-> m]
TList(e) == [k |-> "list", e |-> e]

EmptyMap == [x \in {} |-> NoVal]
MapSet(m, key, v) == [x \in (DOMAIN m) \cup {key} |-> IF x = key THEN v ELSE m[x]]
MapDel(m, key) == [x \in (DOMAIN m) \ {key} |-> m[x]]
\* dict.update(other): the keys of other win.
MapUpdate(m, other) ==
  [x \in (DOMAIN m) \cup (DOMAIN other) |-> IF x \in DOMAIN other THEN other[x] ELSE m[x]]

Last(s) == s[Len(s)]

\* Python's order of the keys the documents use (code point order).
KeyOrder ==
  <<"$ref", "__fragment", "a", "b", "c", "def", "definitions", "in", "items",
    "k", "l", "n", "name", "p", "parameters", "q", "raw", "s", "t", "w",
    "x", "y", "z">>

\* list(sorted(keys))
SortedKeys(S) == SelectSeq(KeyOrder, LAMBDA key : key \in S)

(***************************************************************************)
(* Strings as token sequences.                                             *)
(***************************************************************************)
StartsWith(s, p) == Len(p) <= Len(s) /\ SubSeq(s, 1, Len(p)) = p
EndsWith(s, p) == Len(p) <= Len(s) /\ SubSeq(s, Len(s) - Len(p) + 1, Len(s)) = p
Contains(s, p) == \E i \in 0 .. (Len(s) - Len(p)) : SubSeq(s, i + 1, i + Len(p)) = p

Whitespace == {" ", "\t", "\n"}

RECURSIVE LStrip(_)
LStrip(s) == IF s # <<>> /\ Head(s) \in Whitespace THEN LStrip(Tail(s)) ELSE s

RECURSIVE RStrip(_)
RStrip(s) ==
  IF s # <<>> /\ Last(s) \in Whitespace THEN RStrip(SubSeq(s, 1, Len(s) - 1)) ELSE s

\* str.strip()
Strip(s) == RStrip(LStrip(s))

\* The index of the first occurrence of token t in s, 0 when there is none.
RECURSIVE IndexOf(_, _, _)
IndexOf(s, t, i) ==
  IF i > Len(s) THEN 0 ELSE IF s[i] = t THEN i ELSE IndexOf(s, t, i + 1)

\* str.split(sep) for a one-token separator.
RECURSIVE Split(_, _)
Split(s, sep) ==
  LET i == IndexOf(s, sep, 1) IN
  IF i = 0 THEN <<s>>
  ELSE <<SubSeq(s, 1, i - 1)>> \o Split(SubSeq(s, i + 1, Len(s)), sep)

\* str.replace("//", "/"): left to right, non-overlapping.
RECURSIVE ReplaceDoubleSlash(_)
ReplaceDoubleSlash(s) ==
  IF Len(s) < 2 THEN s
  ELSE IF s[1] = "/" /\ s[2] = "/"
       THEN <<"/">> \o ReplaceDoubleSlash(SubSeq(s, 3, Len(s)))
       ELSE <<s[1]>> \o ReplaceDoubleSlash(Tail(s))

(***************************************************************************)
(* The files on disk.                                                      *)
(***************************************************************************)
P_override == <<"override.json">>
P_chain == <<"chain.json">>
P_strs == <<"strs.json">>
P_items == <<"items.json">>
P_main == <<"main.json">>
P_other == <<"sub", "/", "other.json">>
P_base == <<"base.json">>
P_overlay == <<"overlay.json">>
P_exRel == <<"examples", "/", "foo.json">>
P_exSub == <<"sub", "/", "examples", "/", "foo.json">>
P_exAbs == <<"/", "examples", "/", "foo.json">>
P_nope == <<"nope.json">>

RefTo(raw) == "$ref" :> Str(raw)

\* {"a": {"$ref": "#/b", "x": 2}, "b": {"x": 1, "y": 3}, "c": {"$ref": "#/b"}}
F_override ==
  TDict("a" :> TDict(RefTo(<<"#", "/", "b">>) @@ "x" :> Num(2))
     @@ "b" :> TDict("x" :> Num(1) @@ "y" :> Num(3))
     @@ "c" :> TDict(RefTo(<<"#", "/", "b">>)))

\* {"a": {"$ref": "#/b"}, "b": {"$ref": "#/c"}, "c": {"x": 1}, "l": [{"$ref": "#/c"}]}
F_chain ==
  TDict("a" :> TDict(RefTo(<<"#", "/", "b">>))
     @@ "b" :> TDict(RefTo(<<"#", "/", "c">>))
     @@ "c" :> TDict("x" :> Num(1))
     @@ "l" :> TList(<<TDict(RefTo(<<"#", "/", "c">>))>>))

\* {"s": " hi ", "l": [" hi ", {"t": " hi "}]}
F_strs ==
  TDict("s" :> Str(<<" ", "hi", " ">>)
     @@ "l" :> TList(<<Str(<<" ", "hi", " ">>), TDict("t" :> Str(<<" ", "hi", " ">>))>>))

\* {"items": [{"name": {"z": 1}}], "n": {"name": {"z": 2}}}
F_items ==
  TDict("items" :> TList(<<TDict("name" :> TDict("z" :> Num(1)))>>)
     @@ "n" :> TDict("name" :> TDict("z" :> Num(2))))

\* {"a": {"$ref": "sub/other.json#/def"}, "q": {"w": 1}}
F_main ==
  TDict("a" :> TDict(RefTo(<<"sub", "/", "other.json", "#", "/", "def">>))
     @@ "q" :> TDict("w" :> Num(1)))

\* {"def": {"in": {"$ref": "#/q"}}, "q": {"w": 2}}
F_other ==
  TDict("def" :> TDict("in" :> TDict(RefTo(<<"#", "/", "q">>)))
     @@ "q" :> TDict("w" :> Num(2)))

\* {"k": 1, "n": {"p": 1}}
F_base == TDict("k" :> Num(1) @@ "n" :> TDict("p" :> Num(1)))

\* {"k": 2, "n": {"q": 1}}
F_overlay == TDict("k" :> Num(2) @@ "n" :> TDict("q" :> Num(1)))

Digits == <<"0", "1", "2", "3", "4", "5", "6", "7", "8", "9">>

\* The n-th of the many small files the cache is filled with: "n/<d><d><d>".
CachePath(n) ==
  <<"n", "/", Digits[((n \div 100) % 10) + 1], Digits[((n \div 10) % 10) + 1],
    Digits[(n % 10) + 1]>>

CachePaths == {CachePath(n) : n \in 0 .. MaxCachePaths}

Files ==
  P_override :> F_override @@ P_chain :> F_chain @@ P_strs :> F_strs
  @@ P_items :> F_items @@ P_main :> F_main @@ P_other :> F_other
  @@ P_base :> F_base @@ P_overlay :> F_overlay

FileExists(path) == path \in DOMAIN Files \/ path \in CachePaths
FileContent(path) == IF path \in DOMAIN Files THEN Files[path] ELSE TDict(EmptyMap)

(***************************************************************************)
(* The machine state the operations thread through: the heap, the two      *)
(* lru caches, the files read so far, the references resolved so far and   *)
(* the exception raised, "ok" when none.                                   *)
(***************************************************************************)
St == [heap |-> heap, dcache |-> dcache, fcache |-> fcache, reads |-> reads,
       log |-> log, err |-> "ok"]

Ret(st, v) == [st |-> st, v |-> v]
Raise(st, e) == [st |-> [st EXCEPT !.err = e], v |-> NoVal]

IsDict(st, v) == v.k = "obj" /\ st.heap[v.id].k = "dict"
IsList(st, v) == v.k = "obj" /\ st.heap[v.id].k = "list"

NewDict(m, src) == [k |-> "dict", m |-> m, e |-> <<>>, path |-> <<>>, src |-> src]
NewList(e, src) == [k |-> "list", m |-> EmptyMap, e |-> e, path |-> <<>>, src |-> src]

\* json.load: the parsed tree as fresh objects; src records the file an object
\* was parsed from.
RECURSIVE Alloc(_, _, _)
RECURSIVE AllocKeys(_, _, _, _, _)
RECURSIVE AllocItems(_, _, _, _)
RECURSIVE AllocKeysNext(_, _, _, _, _)
RECURSIVE AllocItemsNext(_, _, _, _)

PushDict(r, src) ==
  Ret([r.st EXCEPT !.heap = Append(@, NewDict(r.v, src))], Obj(Len(r.st.heap) + 1))

PushList(r, src) ==
  Ret([r.st EXCEPT !.heap = Append(@, NewList(r.v, src))], Obj(Len(r.st.heap) + 1))

Alloc(st, tree, src) ==
  IF tree.k = "dict"
  THEN PushDict(AllocKeys(st, tree.m, SortedKeys(DOMAIN tree.m), EmptyMap, src), src)
  ELSE IF tree.k = "list" THEN PushList(AllocItems(st, tree.e, <<>>, src), src)
  ELSE Ret(st, tree)

AllocKeys(st, m, keys, acc, src) ==
  IF keys = <<>> THEN Ret(st, acc)
  ELSE AllocKeysNext(Alloc(st, m[Head(keys)], src), m, keys, acc, src)

AllocKeysNext(r, m, keys, acc, src) ==
  AllocKeys(r.st, m, Tail(keys), MapSet(acc, Head(keys), r.v), src)

AllocItems(st, items, acc, src) ==
  IF items = <<>> THEN Ret(st, acc)
  ELSE AllocItemsNext(Alloc(st, Head(items), src), items, acc, src)

AllocItemsNext(r, items, acc, src) ==
  AllocItems(r.st, Tail(items), Append(acc, r.v), src)

\* The object graph below a value, as a pure tree.
RECURSIVE Snapshot(_, _)
Snapshot(h, v) ==
  IF v.k # "obj" THEN v
  ELSE IF h[v.id].k = "dict"
       THEN TDict([key \in DOMAIN h[v.id].m |-> Snapshot(h, h[v.id].m[key])])
       ELSE TList([i \in 1 .. Len(h[v.id].e) |-> Snapshot(h, h[v.id].e[i])])

(***************************************************************************)
(* functools.lru_cache: a sequence of entries, the most recently used      *)
(* last; a hit moves its entry to the end, a miss on a full cache drops    *)
(* the first.  A call that raises stores nothing.                          *)
(***************************************************************************)
LruMaxSize == 128

CacheFind(cache, key) ==
  IF \E i \in 1 .. Len(cache) : cache[i].key = key
  THEN CHOOSE i \in 1 .. Len(cache) : cache[i].key = key
  ELSE 0

CacheTouch(cache, i) ==
  SubSeq(cache, 1, i - 1) \o SubSeq(cache, i + 1, Len(cache)) \o <<cache[i]>>

CachePut(cache, key, v) ==
  Append(IF Len(cache) >= LruMaxSize THEN Tail(cache) ELSE cache, [key |-> key, val |-> v])

(***************************************************************************)
(* load_document                                                           *)
(***************************************************************************)
CountOf(m, key) == IF key \in DOMAIN m THEN m[key] ELSE 0

\* OpenApiDocument(data, path=path): a new mapping holding the items of data,
\* tagged with its path.
OpenApiDocument(r, path) ==
  Ret([r.st EXCEPT !.heap = Append(@, [NewDict(r.v, path) EXCEPT !.path = <<path>>])],
      Obj(Len(r.st.heap) + 1))

\* open(path) and json.load(f)
ReadFile(st, path) ==
  AllocKeys([st EXCEPT !.reads = MapSet(@, path, CountOf(@, path) + 1)],
            FileContent(path).m, SortedKeys(DOMAIN FileContent(path).m), EmptyMap, path)

\* "/examples/" in path
IsExamplePath(path) == Contains(path, <<"/", "examples", "/">>)

\* The body of load_document, lines 26-33.
LoadDocumentBody(st, path) ==
  IF FileExists(path) THEN OpenApiDocument(ReadFile(st, path), path)
  ELSE IF IsExamplePath(path) THEN OpenApiDocument(Ret(st, EmptyMap), path)
  ELSE Raise(st, "FileNotFoundError")

DocCachePut(r, path) ==
  IF r.st.err # "ok" THEN r
  ELSE Ret([r.st EXCEPT !.dcache = CachePut(@, path, r.v)], r.v)

LoadDocument(st, path) ==
  IF st.err # "ok" THEN Ret(st, NoVal)
  ELSE IF CacheFind(st.dcache, path) # 0
  THEN Ret([st EXCEPT !.dcache = CacheTouch(@, CacheFind(st.dcache, path))],
           st.dcache[CacheFind(st.dcache, path)].val)
  ELSE DocCachePut(LoadDocumentBody(st, path), path)

(***************************************************************************)
(* OpenApiDocument.merge and load                                          *)
(***************************************************************************)
\* result[key] = {} in the merge: a new mapping under key of object rid.
NewChild(st, rid, key, src) ==
  [st EXCEPT !.heap = Append([@ EXCEPT ![rid].m = MapSet(@, key, Obj(Len(st.heap) + 1))],
                             NewDict(EmptyMap, src))]

\* json_merge_patch.merge(self, other) works in place on self: a mapping of
\* other merges into the mapping self holds at that key (a new one when self
\* holds none), null deletes the key, anything else is stored by reference.
RECURSIVE MergeObj(_, _, _, _, _)
MergeObj(st, rid, oid, keys, fuel) ==
  IF keys = <<>> THEN st
  ELSE IF fuel = 0 THEN [st EXCEPT !.err = "RecursionError"]
  ELSE
    LET key == Head(keys)
        value == st.heap[oid].m[key]
    IN IF IsDict(st, value) THEN
         IF key \in DOMAIN st.heap[rid].m /\ IsDict(st, st.heap[rid].m[key])
         THEN MergeObj(MergeObj(st, st.heap[rid].m[key].id, value.id,
                                SortedKeys(DOMAIN st.heap[value.id].m), fuel - 1),
                       rid, oid, Tail(keys), fuel)
         ELSE MergeObj(MergeObj(NewChild(st, rid, key, st.heap[value.id].src),
                                Len(st.heap) + 1, value.id,
                                SortedKeys(DOMAIN st.heap[value.id].m), fuel - 1),
                       rid, oid, Tail(keys), fuel)
       ELSE IF value.k = "null"
            THEN MergeObj([st EXCEPT !.heap[rid].m = MapDel(@, key)], rid, oid, Tail(keys), fuel)
            ELSE MergeObj([st EXCEPT !.heap[rid].m = MapSet(@, key, value)],
                          rid, oid, Tail(keys), fuel)

\* self.update(mergepatch.merge(self, other)): the merge returns self, so the
\* update changes nothing more.
Merge(st, root, other) ==
  IF st.err # "ok" THEN st
  ELSE MergeObj(st, root.id, other.id, SortedKeys(DOMAIN st.heap[other.id].m), MaxFuel)

RECURSIVE LoadRest(_, _, _)
RECURSIVE LoadRestNext(_, _, _)
\* for path in paths: root.merge(load_document(path))
LoadRest(st, root, paths) ==
  IF paths = <<>> \/ st.err # "ok" THEN st
  ELSE LoadRestNext(LoadDocument(st, Head(paths)), root, paths)

LoadRestNext(r, root, paths) == LoadRest(Merge(r.st, root, r.v), root, Tail(paths))

LoadReturn(st, root) == IF st.err # "ok" THEN Ret(st, NoVal) ELSE Ret(st, root)

LoadMerge(r, paths) == LoadReturn(LoadRest(r.st, r.v, paths), r.v)

\* load(paths): root is the cached document of the first path.
Load(st, paths) ==
  IF st.err # "ok" THEN Ret(st, NoVal)
  ELSE LoadMerge(LoadDocument(st, Head(paths)), Tail(paths))

(***************************************************************************)
(* split_ref and load_fragment                                             *)
(***************************************************************************)
split_ref(jsonptr) ==
  IF StartsWith(jsonptr, <<"#">>) THEN <<<<>>, Tail(jsonptr)>>
  ELSE IF IndexOf(jsonptr, "#", 1) # 0
       THEN <<SubSeq(jsonptr, 1, IndexOf(jsonptr, "#", 1) - 1),
              SubSeq(jsonptr, IndexOf(jsonptr, "#", 1) + 1, Len(jsonptr))>>
       ELSE <<jsonptr, <<>>>>

\* The last "/" of a path, 0 when it has none.
RECURSIVE LastSlash(_, _)
LastSlash(path, i) ==
  IF i = 0 THEN 0 ELSE IF path[i] = "/" THEN i ELSE LastSlash(path, i - 1)

\* str(pathlib.Path(path).parents[0] / filepath)
JoinParent(path, filepath) ==
  LET i == LastSlash(path, Len(path)) IN
  IF StartsWith(filepath, <<"/">>) THEN filepath
  ELSE IF i = 0 THEN filepath
  ELSE IF i = 1 THEN <<"/">> \o filepath
  ELSE SubSeq(path, 1, i - 1) \o <<"/">> \o filepath

IntOf == "0" :> 0 @@ "1" :> 1 @@ "2" :> 2 @@ "3" :> 3 @@ "4" :> 4
         @@ "5" :> 5 @@ "6" :> 6 @@ "7" :> 7 @@ "8" :> 8 @@ "9" :> 9

\* A segment of a pointer as one string: the segments the model walks are one
\* token long or empty.
SegKey(seg) == IF seg = <<>> THEN "" ELSE seg[1]

\* Lines 53-54: a sequence is indexed with int(segment).
IndexStep(st, document, segment) ==
  IF ~IsList(st, document) THEN Ret(st, document)
  ELSE IF segment \notin DOMAIN IntOf THEN Raise(st, "ValueError")
  ELSE IF IntOf[segment] >= Len(st.heap[document.id].e) THEN Raise(st, "IndexError")
  ELSE Ret(st, st.heap[document.id].e[IntOf[segment] + 1])

\* Lines 55-56: whatever line 54 left must be a mapping that holds the segment.
KeyStep(r, segment) ==
  IF r.st.err # "ok" THEN r
  ELSE IF ~IsDict(r.st, r.v) THEN Raise(r.st, "AssertionError")
  ELSE IF segment \notin DOMAIN r.st.heap[r.v.id].m THEN Raise(r.st, "KeyError")
  ELSE Ret(r.st, r.st.heap[r.v.id].m[segment])

\* One turn of the loop over the segments.
WalkSegment(st, document, seg) == KeyStep(IndexStep(st, document, SegKey(seg)), SegKey(seg))

RECURSIVE WalkPointer(_, _, _)
RECURSIVE WalkPointerNext(_, _)
WalkPointer(st, document, segs) ==
  IF segs = <<>> THEN Ret(st, document)
  ELSE WalkPointerNext(WalkSegment(st, document, Head(segs)), Tail(segs))

WalkPointerNext(r, segs) == IF r.st.err # "ok" THEN r ELSE WalkPointer(r.st, r.v, segs)

\* relative_jsonptr.replace("//", "/")[1:].split("/")
PointerSegments(relative_jsonptr) ==
  Split(Tail(ReplaceDoubleSlash(relative_jsonptr)), "/")

\* document["__fragment"] = {"raw": raw_jsonptr}
TagFragment(r, raw_jsonptr) ==
  IF r.st.err # "ok" THEN r
  ELSE IF ~IsDict(r.st, r.v) THEN Raise(r.st, "TypeError")
  ELSE Ret([r.st EXCEPT !.heap =
              Append([@ EXCEPT ![r.v.id].m = MapSet(@, "__fragment", Obj(Len(r.st.heap) + 1))],
                     NewDict("raw" :> Str(raw_jsonptr), r.st.heap[r.v.id].src))],
           r.v)

\* Lines 46-49
FragmentDocument(st, path, filepath) ==
  IF filepath # <<>> THEN LoadDocument(st, JoinParent(path, filepath))
  ELSE LoadDocument(st, path)

\* Lines 51-56
FragmentWalk(d, relative_jsonptr) ==
  IF d.st.err # "ok" THEN d
  ELSE IF relative_jsonptr # <<>>
       THEN WalkPointer(d.st, d.v, PointerSegments(relative_jsonptr))
       ELSE d

LoadFragmentBody(st, path, raw_jsonptr) ==
  TagFragment(FragmentWalk(FragmentDocument(st, path, split_ref(raw_jsonptr)[1]),
                           split_ref(raw_jsonptr)[2]),
              raw_jsonptr)

FragCachePut(r, key) ==
  IF r.st.err # "ok" THEN r
  ELSE Ret([r.st EXCEPT !.fcache = CachePut(@, key, r.v)], r.v)

LoadFragment(st, path, raw_jsonptr) ==
  IF st.err # "ok" THEN Ret(st, NoVal)
  ELSE IF CacheFind(st.fcache, <<path, raw_jsonptr>>) # 0
  THEN Ret([st EXCEPT !.fcache = CacheTouch(@, CacheFind(st.fcache, <<path, raw_jsonptr>>))],
           st.fcache[CacheFind(st.fcache, <<path, raw_jsonptr>>)].val)
  ELSE FragCachePut(LoadFragmentBody(st, path, raw_jsonptr), <<path, raw_jsonptr>>)

(***************************************************************************)
(* normalize                                                               *)
(***************************************************************************)
\* str(data.pop("$ref")) for the values a document can hold there.
StrOf(v) ==
  IF v.k = "str" THEN v.s
  ELSE IF v.k = "num" /\ v.n \in 0 .. 9 THEN <<Digits[v.n + 1]>>
  ELSE <<"<repr>">>

\* data.pop("$ref"), on the mapping of the document itself; log keeps which
\* file the mapping was parsed from and which path resolves its reference.
PopRef(st, data, docpath) ==
  [st EXCEPT !.heap[data.id].m = MapDel(@, "$ref"),
             !.log = @ \cup {[site |-> st.heap[data.id].src, used |-> docpath,
                              raw |-> StrOf(st.heap[data.id].m["$ref"])]}]

\* dereffed.update(data): dereffed is the object load_fragment returned.
UpdateFragment(f, data) ==
  IF f.st.err # "ok" THEN f
  ELSE Ret([f.st EXCEPT !.heap[f.v.id].m = MapUpdate(@, f.st.heap[data.id].m)], f.v)

\* Lines 85-88
Deref(st, data, docpath) ==
  IF "$ref" \notin DOMAIN st.heap[data.id].m THEN Ret(st, data)
  ELSE UpdateFragment(LoadFragment(PopRef(st, data, docpath), docpath,
                                   StrOf(st.heap[data.id].m["$ref"])),
                      data)

RECURSIVE iter_normalize(_, _, _, _)
RECURSIVE NormalizeKeys(_, _, _, _, _, _)
RECURSIVE NormalizeItems(_, _, _, _, _)
RECURSIVE NormalizeMapping(_, _, _)
RECURSIVE NormalizeKeysNext(_, _, _, _, _, _, _)
RECURSIVE NormalizeItemsNext(_, _, _, _, _)

WrapDict(r) == IF r.st.err # "ok" THEN r ELSE Ret(r.st, TDict(r.v))

iter_normalize(st, data, docpath, fuel) ==
  IF st.err # "ok" THEN Ret(st, NoVal)
  ELSE IF fuel = 0 THEN Raise(st, "RecursionError")
  ELSE IF data.k \in {"str", "num"} THEN Ret(st, data)
  ELSE IF data.k = "null" THEN Raise(st, "TypeError")
  ELSE IF IsList(st, data) THEN
    \* "$ref" in a list is a search for the string; keys() or pop() then fails
    IF \E i \in 1 .. Len(st.heap[data.id].e) : st.heap[data.id].e[i] = Str(<<"$ref">>)
    THEN Raise(st, "TypeError") ELSE Raise(st, "AttributeError")
  ELSE NormalizeMapping(Deref(st, data, docpath), docpath, fuel)

\* Lines 89-102, over the mapping line 88 left in data.
NormalizeMapping(d, docpath, fuel) ==
  IF d.st.err # "ok" THEN d
  ELSE WrapDict(NormalizeKeys(d.st, d.v.id, SortedKeys(DOMAIN d.st.heap[d.v.id].m),
                              EmptyMap, docpath, fuel - 1))

NormalizeKeys(st, id, keys, acc, docpath, fuel) ==
  IF st.err # "ok" THEN Ret(st, NoVal)
  ELSE IF keys = <<>> THEN Ret(st, acc)
  ELSE IF Head(keys) \notin DOMAIN st.heap[id].m THEN Raise(st, "KeyError")
  ELSE
    LET key == Head(keys)
        value == st.heap[id].m[key]
    IN IF IsDict(st, value) THEN
         NormalizeKeysNext(iter_normalize(st, value, docpath, fuel), FALSE,
                           id, keys, acc, docpath, fuel)
       ELSE IF IsList(st, value) THEN
         NormalizeKeysNext(NormalizeItems(st, st.heap[value.id].e, <<>>, docpath, fuel), TRUE,
                           id, keys, acc, docpath, fuel)
       ELSE IF value.k = "str" THEN
         NormalizeKeys(st, id, Tail(keys), MapSet(acc, key, Str(Strip(value.s))), docpath, fuel)
       ELSE NormalizeKeys(st, id, Tail(keys), MapSet(acc, key, value), docpath, fuel)

\* result[key] = r.v, a list when the value was one
NormalizeKeysNext(r, isList, id, keys, acc, docpath, fuel) ==
  NormalizeKeys(r.st, id, Tail(keys),
                MapSet(acc, Head(keys), IF isList THEN TList(r.v) ELSE r.v), docpath, fuel)

NormalizeItems(st, items, acc, docpath, fuel) ==
  IF st.err # "ok" THEN Ret(st, NoVal)
  ELSE IF items = <<>> THEN Ret(st, acc)
  ELSE NormalizeItemsNext(iter_normalize(st, Head(items), docpath, fuel),
                          items, acc, docpath, fuel)

NormalizeItemsNext(r, items, acc, docpath, fuel) ==
  NormalizeItems(r.st, Tail(items), Append(acc, r.v), docpath, fuel)

\* normalize(doc, []): references are resolved with doc.path[-1].
normalize(st, doc) ==
  IF st.err # "ok" THEN Ret(st, NoVal)
  ELSE iter_normalize(st, doc, Last(st.heap[doc.id].path), MaxFuel)

(***************************************************************************)
(* compare                                                                 *)
(***************************************************************************)
DiffOp(op, path) == [op |-> op, path |-> path]

\* jsonpatch.make_patch: mappings are compared key by key (keys only in the
\* old tree are removed, keys only in the new tree added), lists index by
\* index, and any other difference is a replace.
RECURSIVE DiffTree(_, _, _)
RECURSIVE DiffKeys(_, _, _, _)
RECURSIVE DiffItems(_, _, _, _)
DiffTree(a, b, path) ==
  IF a.k # b.k THEN <<DiffOp("replace", path)>>
  ELSE IF a.k = "dict" THEN
    DiffKeys(a.m, b.m, SortedKeys((DOMAIN a.m) \cup (DOMAIN b.m)), path)
  ELSE IF a.k = "list" THEN DiffItems(a.e, b.e, 1, path)
  ELSE IF a = b THEN <<>> ELSE <<DiffOp("replace", path)>>

DiffKeys(am, bm, keys, path) ==
  IF keys = <<>> THEN <<>>
  ELSE (IF Head(keys) \notin DOMAIN bm THEN <<DiffOp("remove", path \o <<"/", Head(keys)>>)>>
        ELSE IF Head(keys) \notin DOMAIN am THEN <<DiffOp("add", path \o <<"/", Head(keys)>>)>>
        ELSE DiffTree(am[Head(keys)], bm[Head(keys)], path \o <<"/", Head(keys)>>))
       \o DiffKeys(am, bm, Tail(keys), path)

DiffItems(ae, be, i, path) ==
  IF i > Len(ae) /\ i > Len(be) THEN <<>>
  ELSE (IF i > Len(be) THEN <<DiffOp("remove", path \o <<"/", Digits[i]>>)>>
        ELSE IF i > Len(ae) THEN <<DiffOp("add", path \o <<"/", Digits[i]>>)>>
        ELSE DiffTree(ae[i], be[i], path \o <<"/", Digits[i]>>))
       \o DiffItems(ae, be, i + 1, path)

\* doc.pop("definitions", None); doc.pop("parameters", None)
PopSections(tree) == TDict(MapDel(MapDel(tree.m, "definitions"), "parameters"))

\* normalize(load(paths), [])
NormalizeLoaded(l) == normalize(l.st, l.v)

\* Lines 111-115
MakePatch(n1, n2) ==
  IF n2.st.err # "ok"
  THEN [st |-> n2.st, old |-> NoVal, new |-> NoVal, diffs |-> <<>>]
  ELSE [st |-> n2.st, old |-> PopSections(n1.v), new |-> PopSections(n2.v),
        diffs |-> DiffTree(PopSections(n1.v), PopSections(n2.v), <<>>)]

\* Line 109, after line 108 gave n1
CompareNew(n1, new) == MakePatch(n1, NormalizeLoaded(Load(n1.st, new)))

compare(st, old, new) == CompareNew(NormalizeLoaded(Load(st, old)), new)

(***************************************************************************)
(* The filter registry and the loop of main                                *)
(***************************************************************************)
_ignore_response_property_readonly(diff) ==
  Contains(diff.path, <<"/", "responses", "/">>) /\ EndsWith(diff.path, <<"readOnly">>)

\* The registry, in the order the dict literal gives its keys.
FilterNames ==
  <<"ignore-examples", "ignore-descriptions", "ignore-operation-ids",
    "ignore-fragments", "ignore-consumes-produces", "ignore-response-readonly",
    "ignore-x-ms-parameterlocation", "ignore-x-ms-mutability",
    "ignore-x-ms-client-name", "ignore-security-definition",
    "ignore-info-definition", "ignore-tags", "ignore-schemes",
    "ignore-added-paths", "ignore-example">>

\* filters[name]["func"](diff)
FilterFunc(name, diff) ==
  CASE name = "ignore-examples" -> Contains(diff.path, <<"/", "x-ms-examples">>)
    [] name = "ignore-descriptions" -> EndsWith(diff.path, <<"/", "description">>)
    [] name = "ignore-operation-ids" -> EndsWith(diff.path, <<"/", "operationId">>)
    [] name = "ignore-fragments" -> Contains(diff.path, <<"/", "__fragment">>)
    [] name = "ignore-consumes-produces" ->
         EndsWith(diff.path, <<"/", "consumes">>) \/ EndsWith(diff.path, <<"/", "produces">>)
    [] name = "ignore-response-readonly" -> _ignore_response_property_readonly(diff)
    [] name = "ignore-x-ms-parameterlocation" ->
         EndsWith(diff.path, <<"/", "x-ms-parameter-location">>)
    [] name = "ignore-x-ms-mutability" -> EndsWith(diff.path, <<"/", "x-ms-mutability">>)
    [] name = "ignore-x-ms-client-name" -> EndsWith(diff.path, <<"/", "x-ms-client-name">>)
    [] name = "ignore-security-definition" -> StartsWith(diff.path, <<"/", "security">>)
    [] name = "ignore-info-definition" -> StartsWith(diff.path, <<"/", "info">>)
    [] name = "ignore-tags" -> StartsWith(diff.path, <<"/", "tags">>)
    [] name = "ignore-schemes" -> StartsWith(diff.path, <<"/", "schemes">>)
    [] name = "ignore-added-paths" ->
         diff.op = "add" /\ StartsWith(diff.path, <<"/", "paths", "/">>)
         /\ Len(Split(diff.path, "/")) = 3
    [] name = "ignore-example" -> EndsWith(diff.path, <<"/", "example">>)

\* FilterLoop with an off-by-one bound: the scan stops one filter short of the
\* registry.
RECURSIVE FilterLoopShort(_, _, _)
FilterLoopShort(diff, nf, i) ==
  IF i >= Len(FilterNames) THEN FALSE
  ELSE IF ~nf /\ FilterFunc(FilterNames[i], diff) THEN TRUE
  ELSE FilterLoopShort(diff, nf, i + 1)

\* Lines 191-195: should_ignore after the scan of the registry from filter i on.
RECURSIVE FilterLoop(_, _, _)
FilterLoop(diff, nf, i) ==
  IF i > Len(FilterNames) THEN FALSE
  ELSE IF ~nf /\ FilterFunc(FilterNames[i], diff) THEN TRUE
  ELSE FilterLoop(diff, nf, i + 1)

\* Lines 190-197: what main prints, in order.
RECURSIVE PrintLoop(_, _, _)
PrintLoop(ds, nf, out) ==
  IF ds = <<>> THEN out
  ELSE PrintLoop(Tail(ds), nf, IF FilterLoop(Head(ds), nf, 1) THEN out ELSE Append(out, Head(ds)))

(***************************************************************************)
(* The calls a run makes.  The caches and the heap live as long as the     *)
(* process, so every call starts from what the earlier calls left.         *)
(***************************************************************************)
DocPaths ==
  {P_override, P_chain, P_strs, P_items, P_main, P_other, P_base, P_overlay,
   P_exRel, P_exSub, P_exAbs, P_nope}

PathLists ==
  {<<P_override>>, <<P_chain>>, <<P_strs>>, <<P_items>>, <<P_main>>, <<P_base>>,
   <<P_base, P_overlay>>, <<P_nope>>}

FragmentArgs ==
  {<<P_items, <<"#", "/", "items", "/", "0", "/", "name">>>>,
   <<P_items, <<"#", "/", "n", "/", "name">>>>,
   <<P_items, <<"#", "/", "items">>>>,
   <<P_items, <<"#", "/", "items", "/", "x", "/", "name">>>>,
   <<P_items, <<"#", "/", "n", "/", "/", "name">>>>,
   <<P_items, <<"#">>>>,
   <<P_main, <<"sub", "/", "other.json", "#", "/", "def">>>>,
   <<P_main, <<"sub", "/", "other.json">>>>,
   <<P_main, <<"examples", "/", "foo.json">>>>,
   <<P_other, <<"examples", "/", "foo.json">>>>,
   <<P_override, <<"#", "/", "b">>>>,
   <<P_override, <<"#", "/", "nokey">>>>}

NoCall ==
  [op |-> "none", paths |-> <<>>, paths2 |-> <<>>, raw |-> <<>>, err |-> "ok",
   v |-> NoVal, tree |-> NoVal, tree2 |-> NoVal, diffs |-> <<>>]

Commit(st) ==
  /\ heap' = st.heap
  /\ dcache' = st.dcache
  /\ fcache' = st.fcache
  /\ reads' = st.reads
  /\ log' = st.log

TreeOf(r) == IF r.st.err = "ok" THEN Snapshot(r.st.heap, r.v) ELSE NoVal

RecordCall(st, c) ==
  /\ Commit(st)
  /\ call' = c
  /\ UNCHANGED <<diffs, no_filter, printed, pc>>

LoadDocumentDone(r, path) ==
  RecordCall(r.st, [NoCall EXCEPT !.op = "load_document", !.paths = <<path>>,
                                  !.err = r.st.err, !.v = r.v, !.tree = TreeOf(r)])

DoLoadDocument(path) == LoadDocumentDone(LoadDocument(St, path), path)

LoadDocumentCall(path) ==
  /\ calls < MaxCalls
  /\ DoLoadDocument(path)
  /\ calls' = calls + 1

LoadDone(r, paths) ==
  RecordCall(r.st, [NoCall EXCEPT !.op = "load", !.paths = paths, !.err = r.st.err,
                                  !.v = r.v, !.tree = TreeOf(r)])

LoadCall(paths) ==
  /\ calls < MaxCalls
  /\ LoadDone(Load(St, paths), paths)
  /\ calls' = calls + 1

LoadFragmentDone(r, path, raw) ==
  RecordCall(r.st, [NoCall EXCEPT !.op = "load_fragment", !.paths = <<path>>, !.raw = raw,
                                  !.err = r.st.err, !.v = r.v, !.tree = TreeOf(r)])

LoadFragmentCall(path, raw) ==
  /\ calls < MaxCalls
  /\ LoadFragmentDone(LoadFragment(St, path, raw), path, raw)
  /\ calls' = calls + 1

NormalizeDone(r, paths) ==
  RecordCall(r.st, [NoCall EXCEPT !.op = "normalize", !.paths = paths, !.err = r.st.err,
                                  !.tree = r.v])

\* normalize(load(paths), [])
NormalizeCall(paths) ==
  /\ calls < MaxCalls
  /\ NormalizeDone(NormalizeLoaded(Load(St, paths)), paths)
  /\ calls' = calls + 1

CompareDone(r, old, new) ==
  RecordCall(r.st, [NoCall EXCEPT !.op = "compare", !.paths = old, !.paths2 = new,
                                  !.err = r.st.err, !.tree = r.old, !.tree2 = r.new,
                                  !.diffs = r.diffs])

CompareCall(old, new) ==
  /\ calls < MaxCalls
  /\ CompareDone(compare(St, old, new), old, new)
  /\ calls' = calls + 1

Init ==
  /\ heap = <<>>
  /\ dcache = <<>>
  /\ fcache = <<>>
  /\ reads = EmptyMap
  /\ log = {}
  /\ call = NoCall
  /\ calls = 0
  /\ diffs = <<>>
  /\ no_filter = FALSE
  /\ printed = <<>>
  /\ pc = "idle"

Next ==
  \/ \E path \in DocPaths : LoadDocumentCall(path)
  \/ \E paths \in PathLists : LoadCall(paths)
  \/ \E a \in FragmentArgs : LoadFragmentCall(a[1], a[2])
  \/ \E paths \in PathLists : NormalizeCall(paths)
  \/ \E old \in PathLists, new \in PathLists : CompareCall(old, new)

Spec == Init /\ [][Next]_vars

(***************************************************************************)
(* The memoization of load_document over more paths than the cache holds:  *)
(* the run loads fresh files one after the other and may at any time load  *)
(* the first of them again.                                                *)
(***************************************************************************)
Loaded == Cardinality(DOMAIN reads)

CacheLoadNext ==
  /\ Loaded <= MaxCachePaths
  /\ DoLoadDocument(CachePath(Loaded))
  /\ UNCHANGED calls

CacheLoadAgain ==
  /\ CachePath(0) \in DOMAIN reads
  /\ DoLoadDocument(CachePath(0))
  /\ UNCHANGED calls

NextCache == CacheLoadNext \/ CacheLoadAgain

SpecCache == Init /\ [][NextCache]_vars

(***************************************************************************)
(* The loop of main over the operations compare returned.                  *)
(***************************************************************************)
DiffOps ==
  {DiffOp("replace", <<"/", "paths", "/", "x", "/", "get", "/", "x-ms-examples", "/", "e1">>),
   DiffOp("replace", <<"/", "paths", "/", "x", "/", "get", "/", "description">>),
   DiffOp("replace", <<"/", "paths", "/", "x", "/", "get", "/", "operationId">>),
   DiffOp("remove", <<"/", "paths", "/", "x", "/", "get", "/", "__fragment">>),
   DiffOp("add", <<"/", "paths", "/", "x", "/", "get", "/", "consumes">>),
   DiffOp("remove", <<"/", "paths", "/", "x", "/", "get", "/", "produces">>),
   DiffOp("add", <<"/", "paths", "/", "x", "/", "get", "/", "responses", "/", "200", "/", "readOnly">>),
   DiffOp("add", <<"/", "paths", "/", "x", "/", "get", "/", "parameters", "/", "0", "/", "readOnly">>),
   DiffOp("replace", <<"/", "paths", "/", "x", "/", "get", "/", "x-ms-parameter-location">>),
   DiffOp("replace", <<"/", "paths", "/", "x", "/", "get", "/", "x-ms-mutability">>),
   DiffOp("replace", <<"/", "paths", "/", "x", "/", "get", "/", "x-ms-client-name">>),
   DiffOp("add", <<"/", "security", "Definitions", "/", "key">>),
   DiffOp("replace", <<"/", "info", "/", "title">>),
   DiffOp("add", <<"/", "tags", "/", "0">>),
   DiffOp("remove", <<"/", "schemes", "/", "0">>),
   DiffOp("add", <<"/", "paths", "/", "newRoute">>),
   DiffOp("add", <<"/", "paths", "/", "newRoute", "/", "get">>),
   DiffOp("remove", <<"/", "paths", "/", "newRoute">>),
   DiffOp("replace", <<"/", "paths", "/", "x", "/", "get", "/", "example">>),
   DiffOp("replace", <<"/", "paths", "/", "x", "/", "get", "/", "summary">>),
   DiffOp("replace", <<"/", "host">>)}

DiffLists == UNION {[1 .. n -> DiffOps] : n \in 0 .. MaxDiffs}

InitFilter ==
  /\ heap = <<>>
  /\ dcache = <<>>
  /\ fcache = <<>>
  /\ reads = EmptyMap
  /\ log = {}
  /\ call = NoCall
  /\ calls = 0
  /\ diffs \in DiffLists
  /\ no_filter \in BOOLEAN
  /\ printed = <<>>
  /\ pc = "compared"

MainLoop ==
  /\ pc = "compared"
  /\ printed' = PrintLoop(diffs, no_filter, <<>>)
  /\ pc' = "done"
  /\ UNCHANGED <<heap, dcache, fcache, reads, log, call, calls, diffs, no_filter>>

NextFilter == MainLoop

SpecFilter == InitFilter /\ [][NextFilter]_vars

(***************************************************************************)
(* The claims.                                                             *)
(***************************************************************************)
Ok(op) == call.op = op /\ call.err = "ok"

\* C1: compare called with the same path list on both sides leaves no diff
\* operation after the default filters, also for documents that hold $ref.
C1_SelfCompareIsEmpty ==
  (Ok("compare") /\ call.paths = call.paths2) => PrintLoop(call.diffs, FALSE, <<>>) = <<>>

\* A tree of mappings and numbers only: no reference, no string, no list.
RECURSIVE Plain(_)
Plain(tree) ==
  \/ tree.k = "num"
  \/ tree.k = "dict" /\ \A key \in DOMAIN tree.m : Plain(tree.m[key])

\* The top-level keys of a file that hold a mapping with a reference "#/t" to
\* a plain top-level mapping t of the same file, next to plain siblings.
LocalSites(file) ==
  {s \in DOMAIN file.m :
     /\ file.m[s].k = "dict"
     /\ "$ref" \in DOMAIN file.m[s].m
     /\ file.m[s].m["$ref"].k = "str"
     /\ Len(file.m[s].m["$ref"].s) = 3
     /\ SubSeq(file.m[s].m["$ref"].s, 1, 2) = <<"#", "/">>
     /\ file.m[s].m["$ref"].s[3] \in DOMAIN file.m
     /\ file.m[file.m[s].m["$ref"].s[3]].k = "dict"
     /\ Plain(file.m[file.m[s].m["$ref"].s[3]])
     /\ Plain(TDict(MapDel(file.m[s].m, "$ref")))}

\* The target as stored in the file, overlaid with the siblings of site s.
Overlaid(file, s) ==
  MapUpdate(file.m[file.m[s].m["$ref"].s[3]].m, MapDel(file.m[s].m, "$ref"))

\* C2: at every reference site normalize yields the target's content as stored
\* in its file overlaid with that site's own sibling keys only, apart from the
\* provenance key; overrides of one site never show at another site.
C2_SiteIsTargetPlusOwnSiblings ==
  (Ok("normalize") /\ Len(call.paths) = 1 /\ FileExists(call.paths[1])) =>
    \A s \in LocalSites(FileContent(call.paths[1])) :
      /\ s \in DOMAIN call.tree.m
      /\ call.tree.m[s].k = "dict"
      /\ MapDel(call.tree.m[s].m, "__fragment") = Overlaid(FileContent(call.paths[1]), s)

RECURSIVE HasRefKey(_)
HasRefKey(tree) ==
  \/ tree.k = "dict" /\ ("$ref" \in DOMAIN tree.m \/ \E key \in DOMAIN tree.m : HasRefKey(tree.m[key]))
  \/ tree.k = "list" /\ \E i \in 1 .. Len(tree.e) : HasRefKey(tree.e[i])

\* C3: the tree normalize returns holds no $ref key at any depth.
C3_NoRefKeyLeft == Ok("normalize") => ~HasRefKey(call.tree)

\* The first Document object built for a path.
FirstInstance(path) ==
  CHOOSE i \in 1 .. Len(heap) :
    /\ heap[i].path = <<path>>
    /\ \A j \in 1 .. (i - 1) : heap[j].path # <<path>>

\* C4: load_document of a path returns the Document built at the first load of
\* that path, and the file is read once, however many other paths were loaded.
C4_LoadDocumentMemoized ==
  (Ok("load_document") /\ FileExists(call.paths[1])) =>
    /\ CountOf(reads, call.paths[1]) = 1
    /\ call.v = Obj(FirstInstance(call.paths[1]))

\* C5: every reference met during normalization is resolved against the file
\* that holds the reference.
C5_ResolvedAgainstContainingFile == \A e \in log : e.used = e.site

\* C6: when the no-filter switch is off an operation is printed iff none of the
\* 15 registered predicates matches it, when it is on every operation is
\* printed, and the printed operations keep the order of the diff list.
C6_PrintedIsUnfilteredInOrder ==
  pc = "done" =>
    printed = SelectSeq(diffs, LAMBDA d :
                no_filter \/ ~(\E i \in 1 .. 15 : FilterFunc(FilterNames[i], d)))

\* C6 witness: with the switch off, the first of two operations was dropped and
\* the second printed.
C6_Witness ==
  /\ pc = "done"
  /\ ~no_filter
  /\ Len(diffs) = 2
  /\ diffs[1] # diffs[2]
  /\ printed = <<diffs[2]>>

\* A path with a segment named examples.
HasExamplesSegment(path) ==
  \E i \in 1 .. (Len(Split(path, "/")) - 1) : Split(path, "/")[i] = <<"examples">>

\* C7: loading a missing file gives the empty document (apart from a
\* provenance key written later) when the path has an examples segment,
\* relative paths starting with examples/ included, and fails with NotFound
\* otherwise.
C7_MissingExampleIsEmpty ==
  (call.op = "load_document" /\ ~FileExists(call.paths[1])) =>
    IF HasExamplesSegment(call.paths[1])
    THEN call.err = "ok" /\ MapDel(call.tree.m, "__fragment") = EmptyMap
    ELSE call.err = "FileNotFoundError"

RECURSIVE AllTrimmed(_)
AllTrimmed(tree) ==
  CASE tree.k = "str" -> Strip(tree.s) = tree.s
    [] tree.k = "dict" -> \A key \in DOMAIN tree.m : AllTrimmed(tree.m[key])
    [] tree.k = "list" -> \A i \in 1 .. Len(tree.e) : AllTrimmed(tree.e[i])
    [] OTHER -> TRUE

\* C8: every string leaf of the tree normalize returns is trimmed, as a value
\* of a mapping and as an element of an array.
C8_AllStringsTrimmed == Ok("normalize") => AllTrimmed(call.tree)

\* A pointer walked one segment per step: an index into a sequence, a key
\* into a mapping; NoVal when a step fails.
RECURSIVE StepWalk(_, _)
StepWalk(tree, segs) ==
  IF segs = <<>> THEN tree
  ELSE IF tree.k = "list" THEN
    IF SegKey(Head(segs)) \in DOMAIN IntOf /\ IntOf[SegKey(Head(segs))] < Len(tree.e)
    THEN StepWalk(tree.e[IntOf[SegKey(Head(segs))] + 1], Tail(segs))
    ELSE NoVal
  ELSE IF tree.k = "dict" /\ SegKey(Head(segs)) \in DOMAIN tree.m
    THEN StepWalk(tree.m[SegKey(Head(segs))], Tail(segs))
    ELSE NoVal

\* C9: load_fragment consumes one segment per step, so on an untouched file the
\* pointer resolves to what the step-by-step walk reaches, and fails only where
\* that walk fails.
C9_OneSegmentPerStep ==
  (call.op = "load_fragment" /\ calls = 1 /\ Len(call.raw) > 1 /\ Head(call.raw) = "#"
   /\ FileExists(call.paths[1])) =>
    LET want == StepWalk(FileContent(call.paths[1]), PointerSegments(Tail(call.raw)))
    IN /\ want.k = "none" => call.err # "ok"
       /\ want.k = "dict" =>
            call.err = "ok" /\ MapDel(call.tree.m, "__fragment") = want.m

\* Merge-patch of two file contents.
RECURSIVE Patched(_, _)
Patched(a, b) ==
  IF b.k # "dict" THEN b
  ELSE LET base == IF a.k = "dict" THEN a.m ELSE EmptyMap
           keep == {key \in (DOMAIN base) \cup (DOMAIN b.m) :
                      ~(key \in DOMAIN b.m /\ b.m[key].k = "null")}
       IN TDict([key \in keep |->
                   IF key \notin DOMAIN b.m THEN base[key]
                   ELSE IF key \in DOMAIN base THEN Patched(base[key], b.m[key])
                   ELSE Patched(TDict(EmptyMap), b.m[key])])

RECURSIVE OverlayFiles(_, _)
OverlayFiles(tree, paths) ==
  IF paths = <<>> THEN tree
  ELSE OverlayFiles(Patched(tree, FileContent(Head(paths))), Tail(paths))

\* C10: load(paths) returns the first file overlaid with exactly the later
\* files of paths, whatever was loaded or merged earlier in the run.
C10_LoadIsFirstPlusOverlays ==
  (Ok("load") /\ log = {} /\ fcache = <<>>) =>
    call.tree = OverlayFiles(FileContent(Head(call.paths)), Tail(call.paths))

====
